---- MODULE Spec2Model ----
(***************************************************************************)
(* Read handlers of three Terraform data sources of the IBM provider:      *)
(*   ibm_kms_key                  (dataSourceIBMKMSKeyRead)                *)
(*   ibm_pi_storage_type_capacity (dataSourceIBMPIStorageTypeCapacityRead) *)
(*   ibm_project_config           (dataSourceIbmProjectConfigRead)         *)
(* One behaviour of Spec is one invocation of one handler.  Every SDK call  *)
(* is one step whose outcome (error or response) is chosen by the          *)
(* environment.  SpecConc runs two ibm_kms_key reads of one session, and   *)
(* SpecPag evaluates the pag-hosts output of the Privileged Access Gateway *)
(* example.                                                                *)
(***************************************************************************)
EXTENDS Integers, Sequences, FiniteSets, TLC

VARIABLES
    handler,     \* which read handler this invocation runs
    cfg,         \* the configuration the handler reads with d.Get / d.GetOk
    pc,          \* position in the handler
    ret,         \* what the handler returned: [kind, msg]
    d,           \* schema.ResourceData: [Id, attrs, order]
    calls,       \* history of the SDK calls made so far, in order
    api,         \* the key-protect client obtained from the session: [URL, InstanceID]
    instanceID,  \* local instanceID of dataSourceIBMKMSKeyRead
    offset,      \* local offset of the GetKeys loop
    totalKeys,   \* local totalKeys
    matchKeys,   \* local matchKeys
    keyMap,      \* local keyMap
    resp,        \* the response of the last single-object SDK call
    other        \* a second read of the same session while it is not running, or Nil

vars == <<handler, cfg, pc, ret, d, calls, api, instanceID, offset, totalKeys,
          matchKeys, keyMap, resp, other>>

----------------------------------------------------------------------------
\* Bounds of the model.

\* Longest key list one GetKeys response carries.
MaxResp == 2

\* Most storage pools one GetStorageTypeCapacity response carries.
MaxPools == 2

\* Most events the needs-attention state of one configuration carries.
MaxEvents == 2

\* Largest num_instances of the Privileged Access Gateway example.
MaxInstances == 11

----------------------------------------------------------------------------
\* Values shared by the handlers.

\* A configuration attribute that the configuration does not mention.
NoVal == "<absent>"
\* A nil pointer / nil interface in an SDK response.
Nil == [nil |-> TRUE]
\* d.Id() before SetId.
NoId == <<"<no id>">>

Handlers == {"kms", "pi", "project"}

Running == [kind |-> "running", msg |-> ""]
RetNil == [kind |-> "nil", msg |-> ""]
RetErr(msg) == [kind |-> "error", msg |-> msg]
RetPanic == [kind |-> "panic", msg |-> "nil pointer dereference"]

\* err.Error() of the error a failed call of op returns.
ErrorOf(op) == "<error of " \o op \o ">"

\* What %s prints for a nil error.
NilError == "%!s(<nil>)"

\* fmt.Errorf(context + ": %s", err)
Errorf(context, err) == context \o ": " \o err

EmptyData == [Id |-> NoId, attrs |-> <<>>, order |-> <<>>]

CallAsDelete(op, arg, ok, out) ==
    [op |-> "Delete" \o op, arg |-> arg, ok |-> ok, out |-> out]

Call(op, arg, ok, out) == [op |-> op, arg |-> arg, ok |-> ok, out |-> out]

\* A call through the key-protect client: the request goes to the URL and
\* carries the instance ID the client holds when the call is made; by is the
\* configuration of the read that makes the call.
ApiCall(op, arg, ok, out) ==
    Call(op, arg, ok, out)
        @@ [URL |-> api.URL, InstanceID |-> api.InstanceID, by |-> cfg]

\* d.Get: the zero value stands in for an attribute the configuration lacks.
Get(v) == IF v = NoVal THEN "" ELSE v

\* d.GetOk: ok only for an attribute set to a non-zero value.
GetOk(v) == Get(v) # ""

\* d.SetId(id)
SetId(data, id) ==
    [data EXCEPT !.Id = id, !.order = Append(@, "Id")]

\* d.Set(key, value)
Set(data, key, value) ==
    [data EXCEPT !.attrs = (key :> value) @@ @, !.order = Append(@, key)]

IsSet(data, key) == key \in DOMAIN data.attrs

\* A Go pointer to a scalar: <<>> is nil, <<v>> points to v.
NilPtr == <<>>
Ptr(v) == <<v>>
Deref(p) == p[1]

\* A Go struct with optional (pointer) fields: a map from the names of the
\* fields that are not nil to their values.
Has(model, field) == field \in DOMAIN model

\* modelMap[key] = model.Field for every listed field that is not nil.
CopyPresent(model, fields) == [k \in (DOMAIN model) \cap fields |-> model[k]]

\* modelMap[key] = model.Field whether or not the field is nil.
CopyAlways(model, fields) ==
    [k \in fields |-> IF Has(model, k) THEN model[k] ELSE "<nil>"]

----------------------------------------------------------------------------
\* ibm_kms_key

pageSize == 200

\* strings.Split(s, ":") on a string given as its sequence of characters.
RECURSIVE SplitRec(_, _, _)
SplitRec(s, cur, acc) ==
    IF s = <<>> THEN Append(acc, cur)
    ELSE IF Head(s) = ":" THEN SplitRec(Tail(s), <<>>, Append(acc, cur))
    ELSE SplitRec(Tail(s), Append(cur, Head(s)), acc)

Split(s) == SplitRec(s, <<>>, <<>>)

InstanceIDOfWrongSegment(id) ==
    LET CrnInstanceID == Split(id)
    IN  IF Len(CrnInstanceID) > 3
        THEN CrnInstanceID[Len(CrnInstanceID) - 1]
        ELSE id

\* instanceID as lines 185-189 leave it.
InstanceIDOf(id) ==
    LET CrnInstanceID == Split(id)
    IN  IF Len(CrnInstanceID) > 3
        THEN CrnInstanceID[Len(CrnInstanceID) - 3 + 1]
        ELSE id

InstanceIDs ==
    { <<"g", "1">>,
      <<"a", ":", "b", ":", "c">>,
      <<"c", ":", "g", "2", ":", "x", ":">>,
      <<"c", ":", "v", ":", "h", ":", ":">> }

EndpointTypes == {"public", "private"}

Limits == {-1, 0, 1, 2, 200, 201, 400}

KeyNames == {"", "a", "c"}
KeyIDs == {"", "k1"}
Aliases == {"", "al"}

\* The lookup attributes of the schema, each absent or given.
KmsConfigs ==
    [instance_id : InstanceIDs, endpoint_type : EndpointTypes, limit : Limits,
     key_id : KeyIDs \cup {NoVal}, key_name : KeyNames \cup {NoVal},
     alias : Aliases \cup {NoVal}]

\* ExactlyOneOf: []string{"alias", "key_name", "key_id"}
ExactlyOneOf(c) ==
    Cardinality({f \in {"alias", "key_name", "key_id"} : c[f] # NoVal}) = 1

Key(id, name) ==
    [ID |-> id, Name |-> name, CRN |-> <<"crn", id>>, Extractable |-> TRUE,
     Aliases |-> <<>>, KeyRingID |-> "default"]

\* The keys an instance may hold: two of one name, one of another.
KeySet == {Key("k1", "a"), Key("k2", "a"), Key("k3", "b")}

SeqsUpTo(S, n) == UNION {[1..k -> S] : k \in 0..n}

\* keys.Keys of a GetKeys response.
KeyLists == SeqsUpTo(KeySet, MaxResp)

defaultLimitPageSize == pageSize

\* The limit of the one GetKeys call made when limit is not passed, line 224.
defaultLimit == 0

LastPageLimitWhole(limitVal, off) == limitVal

\* The limit of the GetKeys call for the last, partial page, line 235.
LastPageLimit(limitVal, off) == limitVal - off

\* keys.Metadata.NumberOfKeys of a GetKeys response.
NumKeysVals == {0, pageSize - 1, pageSize}

\* The policies a GetPolicies response carries.
PolicyLists == {<<>>, <<"rotation">>}

MatchKeysAll(keys, keyName) == keys

MatchKeysFirstOnly(keys, keyName) ==
    LET m == SelectSeq(keys, LAMBDA k : k.Name = keyName)
    IN  IF m = <<>> THEN m ELSE <<Head(m)>>

\* matchKeys as the loop of lines 267-271 builds it.
RECURSIVE MatchKeys(_, _)
MatchKeys(keys, keyName) ==
    IF keys = <<>> THEN <<>>
    ELSE IF Head(keys).Name = keyName
         THEN <<Head(keys)>> \o MatchKeys(Tail(keys), keyName)
         ELSE MatchKeys(Tail(keys), keyName)

\* flex.FlattenKeyPolicies: the list form of the policies of a key.
FlattenKeyPolicies(policies) == <<[policies |-> policies]>>

\* keyInstance of lines 282-297 (and 310-325, 338-353).
KeyInstance(key, policies) ==
    LET base == [id |-> key.ID, name |-> key.Name, crn |-> key.CRN,
                 standard_key |-> key.Extractable, aliases |-> key.Aliases,
                 key_ring_id |-> key.KeyRingID]
    IN  IF Len(policies) = 0 THEN base
        ELSE ("policies" :> FlattenKeyPolicies(policies)) @@ base

KmsStoreIdLast(data, id, km) ==
    SetId(Set(Set(data, "keys", km), "instance_id", id), id)

\* d.SetId(instanceID); d.Set("keys", keyMap); d.Set("instance_id", instanceID)
KmsStore(data, id, km) ==
    Set(Set(SetId(data, id), "keys", km), "instance_id", id)

ReturnErrAndGoOn(msg) ==
    /\ pc' = pc
    /\ ret' = ret

ReturnErrGeneric(msg) ==
    /\ pc' = "done"
    /\ ret' = RetErr("read failed")

\* return fmt.Errorf(...) / return err / return diag
ReturnErr(msg) ==
    /\ pc' = "done"
    /\ ret' = RetErr(msg)

\* return nil
ReturnNil ==
    /\ pc' = "done"
    /\ ret' = RetNil

\* Lines 260-279: the checks and the filter that follow the GetKeys loop.
AfterFetch(tk) ==
    IF Len(tk) = 0
    THEN /\ ReturnErr("No keys in instance")
         /\ UNCHANGED <<matchKeys, keyMap>>
    ELSE LET mk == IF Get(cfg.key_name) # ""
                   THEN MatchKeys(tk, Get(cfg.key_name))
                   ELSE tk
         IN  IF Len(mk) = 0
             THEN /\ ReturnErr("No keys with name")
                  /\ UNCHANGED <<matchKeys, keyMap>>
             ELSE /\ matchKeys' = mk
                  /\ keyMap' = <<>>
                  /\ pc' = "policies"
                  /\ UNCHANGED ret

\* Lines 180-190: the key-protect client of the session, then instanceID.
KmsGetApi ==
    /\ handler = "kms"
    /\ pc = "start"
    /\ \E ok \in BOOLEAN :
        /\ calls' = Append(calls, Call("KeyManagementAPI", <<>>, ok, Nil))
        /\ IF ok
           THEN /\ instanceID' = InstanceIDOf(cfg.instance_id)
                /\ pc' = "rc"
                /\ UNCHANGED ret
           ELSE /\ ReturnErr(ErrorOf("KeyManagementAPI"))
                /\ UNCHANGED instanceID
    /\ UNCHANGED <<other, handler, cfg, d, api, offset, totalKeys, matchKeys, keyMap, resp>>

\* Lines 192-198: the resource-controller client of the session.
KmsGetRcClient ==
    /\ handler = "kms"
    /\ pc = "rc"
    /\ \E ok \in BOOLEAN :
        /\ calls' = Append(calls, Call("ResourceControllerV2API", <<>>, ok, Nil))
        /\ IF ok
           THEN pc' = "instance" /\ UNCHANGED ret
           ELSE ReturnErr(ErrorOf("ResourceControllerV2API"))
    /\ UNCHANGED <<other, handler, cfg, d, api, instanceID, offset, totalKeys, matchKeys,
                   keyMap, resp>>

\* instanceData of a successful GetResourceInstance(id).
InstanceData(id) == [Extensions |-> <<"extensions", id>>]

\* Lines 200-204: GetResourceInstance; an error or a nil instance ends the read.
KmsGetResourceInstance ==
    /\ handler = "kms"
    /\ pc = "instance"
    /\ \E ok \in BOOLEAN, data \in {Nil, InstanceData(instanceID)} :
        /\ ~ok => data = Nil
        /\ calls' = Append(calls, Call("GetResourceInstance", instanceID, ok, data))
        /\ IF ~ok \/ data = Nil
           THEN /\ ReturnErr(Errorf("Error retrieving resource instance",
                                  IF ok THEN NilError
                                  ELSE ErrorOf("GetResourceInstance")))
                /\ UNCHANGED resp
           ELSE /\ resp' = data
                /\ pc' = "endpoint"
                /\ UNCHANGED ret
    /\ UNCHANGED <<other, handler, cfg, d, api, instanceID, offset, totalKeys, matchKeys,
                   keyMap>>

\* The URL KmsEndpointURL derives from the endpoint type and the extensions.
EndpointURL(endpointType, extensions) == <<endpointType, extensions>>

\* Lines 205-217 (and 304, 331): the endpoint of the client, then the lookup
\* mode: key_name if d.GetOk finds it, else key_id if d.GetOk finds it, else alias.
KmsSetEndpoint ==
    /\ handler = "kms"
    /\ pc = "endpoint"
    /\ \E ok \in BOOLEAN :
        IF ok
        THEN /\ api' = [URL |-> EndpointURL(cfg.endpoint_type, resp.Extensions),
                        InstanceID |-> instanceID]
             /\ offset' = 0
             /\ totalKeys' = <<>>
             /\ pc' = IF GetOk(cfg.key_name) THEN "keys" ELSE "key"
             /\ UNCHANGED ret
        ELSE /\ ReturnErr(ErrorOf("KmsEndpointURL"))
             /\ UNCHANGED <<api, offset, totalKeys>>
    /\ UNCHANGED <<other, handler, cfg, d, calls, instanceID, matchKeys, keyMap, resp>>

\* Lines 223-230, 260-279: limit not passed, one GetKeys(0, offset).
KmsGetKeysDefault ==
    /\ handler = "kms"
    /\ pc = "keys"
    /\ cfg.limit = 0
    /\ \E ok \in BOOLEAN, keys \in KeyLists :
        /\ ~ok => keys = <<>>
        /\ calls' = Append(calls, ApiCall("GetKeys", <<defaultLimit, offset>>, ok, keys))
        /\ IF ok
           THEN /\ totalKeys' = totalKeys \o keys
                /\ AfterFetch(totalKeys')
           ELSE /\ ReturnErr(Errorf("Get Keys failed with error", ErrorOf("GetKeys")))
                /\ UNCHANGED <<totalKeys, matchKeys, keyMap>>
    /\ UNCHANGED <<other, handler, cfg, d, api, instanceID, offset, resp>>

\* Lines 232-241, 260-279: the last, partial page of a limited listing.
KmsGetKeysLast ==
    /\ handler = "kms"
    /\ pc = "keys"
    /\ cfg.limit # 0
    /\ offset < cfg.limit
    /\ (cfg.limit - offset) < pageSize
    /\ \E ok \in BOOLEAN, keys \in KeyLists :
        /\ ~ok => keys = <<>>
        /\ calls' = Append(calls, ApiCall("GetKeys", <<LastPageLimit(cfg.limit, offset), offset>>,
                               ok, keys))
        /\ IF ok
           THEN /\ totalKeys' = totalKeys \o keys
                /\ AfterFetch(totalKeys')
           ELSE /\ ReturnErr(Errorf("Get Keys failed with error", ErrorOf("GetKeys")))
                /\ UNCHANGED <<totalKeys, matchKeys, keyMap>>
    /\ UNCHANGED <<other, handler, cfg, d, api, instanceID, offset, resp>>

\* Lines 232-233, 242-255, 260-279: a full page of a limited listing.
KmsGetKeysPage ==
    /\ handler = "kms"
    /\ pc = "keys"
    /\ cfg.limit # 0
    /\ offset < cfg.limit
    /\ ~((cfg.limit - offset) < pageSize)
    /\ \E ok \in BOOLEAN, keys \in KeyLists, numOfKeysFetched \in NumKeysVals :
        /\ ~ok => (keys = <<>> /\ numOfKeysFetched = 0)
        /\ calls' = Append(calls, ApiCall("GetKeys", <<pageSize, offset>>, ok, keys))
        /\ IF ~ok
           THEN /\ ReturnErr(Errorf("Get Keys failed with error", ErrorOf("GetKeys")))
                /\ UNCHANGED <<totalKeys, matchKeys, keyMap, offset>>
           ELSE /\ totalKeys' = totalKeys \o keys
                /\ IF numOfKeysFetched < pageSize \/ offset + pageSize = cfg.limit
                   THEN /\ AfterFetch(totalKeys')
                        /\ UNCHANGED offset
                   ELSE /\ offset' = offset + pageSize
                        /\ UNCHANGED <<pc, ret, matchKeys, keyMap>>
    /\ UNCHANGED <<other, handler, cfg, d, api, instanceID, resp>>

\* Lines 232-233, 256-257: an iteration of the loop with offset >= limit does
\* nothing and the loop has no other exit.
KmsLoopIdle ==
    /\ handler = "kms"
    /\ pc = "keys"
    /\ cfg.limit # 0
    /\ ~(offset < cfg.limit)
    /\ UNCHANGED vars

\* Lines 281-303: GetPolicies for the next matched key; after the last one the
\* resource ID, keys and instance_id are stored.
KmsGetPolicies ==
    /\ handler = "kms"
    /\ pc = "policies"
    /\ LET key == matchKeys[Len(keyMap) + 1]
       IN  \E ok \in BOOLEAN, policies \in PolicyLists :
            /\ ~ok => policies = <<>>
            /\ calls' = Append(calls, ApiCall("GetPolicies", key.ID, ok, policies))
            /\ IF ~ok
               THEN /\ ReturnErr(Errorf("Failed to read policies", ErrorOf("GetPolicies")))
                    /\ UNCHANGED <<keyMap, d>>
               ELSE /\ keyMap' = Append(keyMap, KeyInstance(key, policies))
                    /\ IF Len(keyMap') = Len(matchKeys)
                       THEN /\ d' = KmsStore(d, instanceID, keyMap')
                            /\ ReturnNil
                       ELSE UNCHANGED <<d, pc, ret>>
    /\ UNCHANGED <<other, handler, cfg, api, instanceID, offset, totalKeys, matchKeys, resp>>

\* Lines 305-316 and 332-344: GetKey with key_id, or else with alias.
KmsGetKey ==
    /\ handler = "kms"
    /\ pc = "key"
    /\ LET id == IF GetOk(cfg.key_id) THEN Get(cfg.key_id) ELSE Get(cfg.alias)
       IN  \E ok \in BOOLEAN, key \in KeySet \cup {Nil} :
            /\ ok <=> key # Nil
            /\ calls' = Append(calls, ApiCall("GetKey", id, ok, key))
            /\ IF ok
               THEN /\ resp' = key
                    /\ pc' = "policy"
                    /\ UNCHANGED ret
               ELSE /\ ReturnErr(Errorf("Get Keys failed with error", ErrorOf("GetKey")))
                    /\ UNCHANGED resp
    /\ UNCHANGED <<other, handler, cfg, d, api, instanceID, offset, totalKeys, matchKeys,
                   keyMap>>

\* Lines 317-330 and 345-358: GetPolicies for the one key, then the store.
KmsGetKeyPolicies ==
    /\ handler = "kms"
    /\ pc = "policy"
    /\ \E ok \in BOOLEAN, policies \in PolicyLists :
        /\ ~ok => policies = <<>>
        /\ calls' = Append(calls, ApiCall("GetPolicies", resp.ID, ok, policies))
        /\ IF ~ok
           THEN /\ ReturnErr(Errorf("Failed to read policies", ErrorOf("GetPolicies")))
                /\ UNCHANGED <<keyMap, d>>
           ELSE /\ keyMap' = Append(<<>>, KeyInstance(resp, policies))
                /\ d' = KmsStore(d, instanceID, keyMap')
                /\ ReturnNil
    /\ UNCHANGED <<other, handler, cfg, api, instanceID, offset, totalKeys, matchKeys, resp>>

KmsNext ==
    \/ KmsGetApi
    \/ KmsGetRcClient
    \/ KmsGetResourceInstance
    \/ KmsSetEndpoint
    \/ KmsGetKeysDefault
    \/ KmsGetKeysLast
    \/ KmsGetKeysPage
    \/ KmsLoopIdle
    \/ KmsGetPolicies
    \/ KmsGetKey
    \/ KmsGetKeyPolicies

\* Two ibm_kms_key reads of one session (SpecConc).  The read that runs has
\* its configuration and locals in the variables; the other one is parked in
\* `other`.  The session, its key-protect client `api` and the history of
\* calls belong to both.

\* The configuration and locals of the running read.
Context ==
    [cfg |-> cfg, pc |-> pc, ret |-> ret, d |-> d, instanceID |-> instanceID,
     offset |-> offset, totalKeys |-> totalKeys, matchKeys |-> matchKeys,
     keyMap |-> keyMap, resp |-> resp]

\* The other read runs next.
Yield ==
    /\ other # Nil
    /\ other.pc # "done"
    /\ other' = Context
    /\ cfg' = other.cfg
    /\ pc' = other.pc
    /\ ret' = other.ret
    /\ d' = other.d
    /\ instanceID' = other.instanceID
    /\ offset' = other.offset
    /\ totalKeys' = other.totalKeys
    /\ matchKeys' = other.matchKeys
    /\ keyMap' = other.keyMap
    /\ resp' = other.resp
    /\ UNCHANGED <<handler, calls, api>>

\* The configurations of the two reads: an instance given by its GUID or by
\* its CRN, no limit, lookup by key_name or by key_id.
ConcConfigs ==
    {c \in KmsConfigs :
        /\ ExactlyOneOf(c)
        /\ c.instance_id \in { <<"g", "1">>, <<"c", ":", "g", "2", ":", "x", ":">> }
        /\ c.limit = 0
        /\ c.endpoint_type = "public"
        /\ c.key_name = "a" \/ c.key_id = "k1"}

InitLocalsOf(c) ==
    [cfg |-> c, pc |-> "start", ret |-> Running, d |-> EmptyData, instanceID |-> <<>>,
     offset |-> 0, totalKeys |-> <<>>, matchKeys |-> <<>>, keyMap |-> <<>>,
     resp |-> Nil]

\* Two reads for different instances start with the client of their session.
InitConc ==
    /\ handler = "kms"
    /\ cfg \in ConcConfigs
    /\ pc = "start"
    /\ ret = Running
    /\ d = EmptyData
    /\ calls = <<>>
    /\ api = [URL |-> <<>>, InstanceID |-> <<>>]
    /\ instanceID = <<>>
    /\ offset = 0
    /\ totalKeys = <<>>
    /\ matchKeys = <<>>
    /\ keyMap = <<>>
    /\ resp = Nil
    /\ \E c \in ConcConfigs :
        /\ InstanceIDOf(c.instance_id) # InstanceIDOf(cfg.instance_id)
        /\ other = InitLocalsOf(c)

NextConc ==
    \/ KmsGetApi
    \/ KmsGetRcClient
    \/ KmsGetResourceInstance
    \/ KmsSetEndpoint
    \/ KmsGetKeysDefault
    \/ KmsGetPolicies
    \/ KmsGetKey
    \/ KmsGetKeyPolicies
    \/ Yield

SpecConc == InitConc /\ [][NextConc]_vars

----------------------------------------------------------------------------
\* ibm_pi_storage_type_capacity

CloudInstanceIDs == { <<"c", "1">>, <<"c", "2">> }
StorageTypes == { <<"t", "1">>, <<"t", "3">> }

PiConfigs == [pi_cloud_instance_id : CloudInstanceIDs, pi_storage_type : StorageTypes]

\* models.StoragePoolCapacity
Pool(size, name) ==
    [MaxAllocationSize |-> size, PoolName |-> name, StorageType |-> "tier1",
     TotalCapacity |-> 100]

PoolSet == {Pool(Ptr(10), "pool1"), Pool(Ptr(20), "pool2"), Pool(NilPtr, "pool3")}

\* models.MaximumStorageAllocation
Msa(size, pool, type) ==
    [MaxAllocationSize |-> size, StoragePool |-> pool, StorageType |-> type]

MsaSet ==
    {Msa(Ptr(10), Ptr("pool1"), Ptr("tier1")), Msa(NilPtr, Ptr("pool1"), Ptr("tier1"))}

\* models.StorageTypeCapacity
PiResponses ==
    [MaximumStorageAllocation : MsaSet \cup {Nil},
     StoragePoolsCapacity : SeqsUpTo(PoolSet, MaxPools)]

PiResourceIDSwapped(cloudInstanceID, storageType) ==
    storageType \o <<"/">> \o cloudInstanceID

\* fmt.Sprintf("%s/%s", cloudInstanceID, storageType), line 97.
PiResourceID(cloudInstanceID, storageType) ==
    cloudInstanceID \o <<"/">> \o storageType

\* flex.Flatten: the map with its values turned into strings.
FlexFlatten(data) == [k \in DOMAIN data |-> <<"string", data[k]>>]

\* Line 102-104 and line 112 dereference these pointers.
MsaDerefsNil(msa) ==
    msa.MaxAllocationSize = NilPtr \/ msa.StoragePool = NilPtr \/ msa.StorageType = NilPtr

PoolsDerefNil(pools) == \E i \in 1..Len(pools) : pools[i].MaxAllocationSize = NilPtr

\* data of lines 111-116 for one pool.
PoolData(sp) ==
    [max_allocation_size |-> Deref(sp.MaxAllocationSize), pool_name |-> sp.PoolName,
     storage_type |-> sp.StorageType, total_capacity |-> sp.TotalCapacity]

\* result as the loop of lines 109-118 builds it.
RECURSIVE PoolsResult(_)
PoolsResult(pools) ==
    IF pools = <<>> THEN <<>>
    ELSE <<PoolData(Head(pools))>> \o PoolsResult(Tail(pools))

\* A nil pointer dereference aborts the handler.
ReturnPanic ==
    /\ pc' = "done"
    /\ ret' = RetPanic

\* Lines 82-88: the session, then the two configuration attributes.
PiGetSession ==
    /\ handler = "pi"
    /\ pc = "start"
    /\ \E ok \in BOOLEAN :
        /\ calls' = Append(calls, Call("IBMPISession", <<>>, ok, Nil))
        /\ IF ok
           THEN pc' = "capacity" /\ UNCHANGED ret
           ELSE ReturnErr(ErrorOf("IBMPISession"))
    /\ UNCHANGED <<other, handler, cfg, d, api, instanceID, offset, totalKeys, matchKeys,
                   keyMap, resp>>

\* Lines 90-97: GetStorageTypeCapacity, then the resource ID.
PiGetStorageTypeCapacity ==
    /\ handler = "pi"
    /\ pc = "capacity"
    /\ \E ok \in BOOLEAN, stc \in PiResponses \cup {Nil} :
        /\ ok <=> stc # Nil
        /\ calls' = Append(calls, Call("GetStorageTypeCapacity",
                               <<cfg.pi_cloud_instance_id, cfg.pi_storage_type>>, ok, stc))
        /\ IF ok
           THEN /\ resp' = stc
                /\ d' = SetId(d, PiResourceID(cfg.pi_cloud_instance_id, cfg.pi_storage_type))
                /\ pc' = "maximum"
                /\ UNCHANGED ret
           ELSE /\ ReturnErr(ErrorOf("GetStorageTypeCapacity"))
                /\ UNCHANGED <<resp, d>>
    /\ UNCHANGED <<other, handler, cfg, api, instanceID, offset, totalKeys, matchKeys, keyMap>>

\* Lines 99-107: maximum_storage_allocation.
PiSetMaximumStorageAllocation ==
    /\ handler = "pi"
    /\ pc = "maximum"
    /\ LET msa == resp.MaximumStorageAllocation
       IN  IF msa = Nil
           THEN /\ pc' = "pools"
                /\ UNCHANGED <<d, ret>>
           ELSE IF MsaDerefsNil(msa)
           THEN /\ ReturnPanic
                /\ UNCHANGED d
           ELSE /\ d' = Set(d, "maximum_storage_allocation",
                            FlexFlatten([max_allocation_size |-> Deref(msa.MaxAllocationSize),
                                         storage_pool |-> Deref(msa.StoragePool),
                                         storage_type |-> Deref(msa.StorageType)]))
                /\ pc' = "pools"
                /\ UNCHANGED ret
    /\ UNCHANGED <<other, handler, cfg, calls, api, instanceID, offset, totalKeys, matchKeys,
                   keyMap, resp>>

\* Lines 109-121: storage_pools_capacity, then return nil.
PiSetStoragePoolsCapacity ==
    /\ handler = "pi"
    /\ pc = "pools"
    /\ IF PoolsDerefNil(resp.StoragePoolsCapacity)
       THEN /\ ReturnPanic
            /\ UNCHANGED d
       ELSE /\ d' = Set(d, "storage_pools_capacity", PoolsResult(resp.StoragePoolsCapacity))
            /\ ReturnNil
    /\ UNCHANGED <<other, handler, cfg, calls, api, instanceID, offset, totalKeys, matchKeys,
                   keyMap, resp>>

PiNext ==
    \/ PiGetSession
    \/ PiGetStorageTypeCapacity
    \/ PiSetMaximumStorageAllocation
    \/ PiSetStoragePoolsCapacity

----------------------------------------------------------------------------
\* ibm_project_config

ProjectIDs == { <<"p", "1">>, <<"p", "2">> }
ProjectConfigIDs == { <<"c", "9">> }

ProjConfigs == [project_id : ProjectIDs, project_config_id : ProjectConfigIDs]

ProjResourceIDNoSeparator(projectID, id) == projectID \o id

\* fmt.Sprintf("%s/%s", *getConfigOptions.ProjectID, *getConfigOptions.ID), line 928.
ProjResourceID(projectID, id) == projectID \o <<"/">> \o id

\* flex.IntValue: 0 for a nil pointer.
IntValue(model, field) == IF Has(model, field) THEN model[field] ELSE 0

\* flex.DateTimeToString
DateTimeToString(model, field) ==
    IF Has(model, field) THEN <<"datetime", model[field]>> ELSE <<"datetime">>

\* fmt.Sprintf("%v", v) for every entry of a map.
SprintValues(m) == [k \in DOMAIN m |-> <<"%v", m[k]>>]

\* projectv1.ProjectConfigNeedsAttentionState
EventFields == {"event_id", "event", "timestamp"}
EventOptionalFields == {"severity", "action_url", "target", "triggered_by"}

EventSet ==
    { [event_id |-> "e1", event |-> "failed", timestamp |-> "t1"],
      [event_id |-> "e2", event |-> "failed", timestamp |-> "t2", severity |-> "WARNING"],
      [event_id |-> "e3", event |-> "drift", timestamp |-> "t3", target |-> "tg",
       triggered_by |-> "user"],
      [event_id |-> "e4", event |-> "drift", timestamp |-> "t4", severity |-> "ERROR",
       action_url |-> "url", target |-> "tg", triggered_by |-> "user"] }

NeedsAttentionStateToMapAllKeys(model) ==
    CopyAlways(model, EventFields \cup EventOptionalFields)

\* Lines 1075-1093.
NeedsAttentionStateToMap(model) ==
    CopyAlways(model, EventFields) @@ CopyPresent(model, EventOptionalFields)

\* projectv1.OutputValue
OutputLists ==
    { <<>>, <<[name |-> "o1", description |-> "first", value |-> "v1"]>> }

\* Lines 1095-1113; json.Marshal of a decoded value does not fail, so the
\* branch of lines 1104-1110 is not taken.
OutputValueToMap(model) ==
    CopyAlways(model, {"name"}) @@ CopyPresent(model, {"description"})
        @@ (IF Has(model, "value")
            THEN [value_json |-> <<"json", model["value"]>>]
            ELSE <<>>)

\* projectv1.ProjectReference, with and without its definition.
ProjectReferences ==
    { [id |-> "pid", href |-> "phref", crn |-> "pcrn", definition |-> [name |-> "proj"]],
      [id |-> "pid", href |-> "phref", crn |-> "pcrn"] }

\* Lines 1128-1132.
ProjectDefinitionReferenceToMap(model) == CopyAlways(model, {"name"})

\* Lines 1115-1126, for a reference whose definition is not nil.
ProjectReferenceToMap(model) ==
    CopyAlways(model, {"id", "href", "crn"})
        @@ [definition |-> <<ProjectDefinitionReferenceToMap(model["definition"])>>]

\* projectv1.SchematicsMetadata
ScriptFields ==
    {"validate_pre_script", "validate_post_script", "deploy_pre_script",
     "deploy_post_script", "undeploy_pre_script", "undeploy_post_script"}

SchematicsSet ==
    { [workspace_crn |-> "ws", deploy_pre_script |-> [type |-> "ansible", path |-> "s.yml"]] }

\* Lines 1184-1196.
ScriptToMap(model) == CopyPresent(model, {"type", "path", "short_description"})

\* Lines 1134-1182.
SchematicsMetadataToMap(model) ==
    CopyPresent(model, {"workspace_crn"})
        @@ [k \in (DOMAIN model) \cap ScriptFields |-> <<ScriptToMap(model[k])>>]

\* projectv1.ProjectConfigDefinitionResponseIntf: the concrete type and the
\* fields of the value that are not nil.
Subtypes == {"DA", "Resource", "Generic", "Other"}

DefinitionFields ==
    {"compliance_profile", "locator_id", "description", "name", "environment_id",
     "authorizations", "inputs", "settings", "resource_crns"}

DefinitionModels ==
    { <<>>,
      [locator_id |-> "loc", name |-> "nm", resource_crns |-> <<"crn1">>],
      [compliance_profile |-> [id |-> "cp", profile_name |-> "prof"],
       locator_id |-> "loc", description |-> "desc", name |-> "nm",
       environment_id |-> "env", authorizations |-> [method |-> "api_key"],
       inputs |-> [in1 |-> 1], settings |-> [s1 |-> TRUE],
       resource_crns |-> <<"crn1">>] }

Definitions == [subtype : Subtypes, model : DefinitionModels]

\* Lines 1255-1273.
ProjectComplianceProfileToMap(model) ==
    CopyPresent(model, {"id", "instance_id", "instance_location", "attachment_id",
                        "profile_name"})

\* Lines 1275-1287.
ProjectConfigAuthToMap(model) ==
    CopyPresent(model, {"trusted_profile_id", "method", "api_key"})

\* The value stored for one field of a definition.
DefinitionValue(model, k) ==
    IF ~Has(model, k) THEN "<nil>"
    ELSE IF k = "compliance_profile" THEN <<ProjectComplianceProfileToMap(model[k])>>
    ELSE IF k = "authorizations" THEN <<ProjectConfigAuthToMap(model[k])>>
    ELSE IF k \in {"inputs", "settings"} THEN SprintValues(model[k])
    ELSE model[k]

\* modelMap with the fields of `ifPresent` that are not nil and those of `always`.
DefinitionMap(model, ifPresent, always) ==
    [k \in ((DOMAIN model) \cap ifPresent) \cup always |-> DefinitionValue(model, k)]

DAConfigDefinitionToMapWithCrns(model) ==
    DefinitionMap(model, DefinitionFields \ {"description", "name"},
                  {"description", "name"})

\* Lines 1289-1328.
DAConfigDefinitionToMap(model) ==
    DefinitionMap(model,
                  {"compliance_profile", "locator_id", "environment_id",
                   "authorizations", "inputs", "settings"},
                  {"description", "name"})

\* Lines 1330-1362.
ResourceConfigDefinitionToMap(model) ==
    DefinitionMap(model,
                  {"resource_crns", "environment_id", "authorizations", "inputs",
                   "settings"},
                  {"description", "name"})

\* Lines 1203-1249.
GenericConfigDefinitionToMap(model) == DefinitionMap(model, DefinitionFields, {})

\* Lines 1198-1253: [err, map] by the concrete type of the definition.
ProjectConfigDefinitionResponseToMap(def) ==
    IF def.subtype = "DA"
    THEN [err |-> "", map |-> DAConfigDefinitionToMap(def.model)]
    ELSE IF def.subtype = "Resource"
    THEN [err |-> "", map |-> ResourceConfigDefinitionToMap(def.model)]
    ELSE IF def.subtype = "Generic"
    THEN [err |-> "", map |-> GenericConfigDefinitionToMap(def.model)]
    ELSE [err |-> "Unrecognized projectv1.ProjectConfigDefinitionResponseIntf subtype encountered",
          map |-> <<>>]

\* projectv1.ProjectConfigVersionSummary, with and without its definition.
VersionSummaries ==
    { [state |-> "approved", version |-> 2, href |-> "vhref",
       definition |-> [environment_id |-> "env"]],
      [state |-> "approved", version |-> 2, href |-> "vhref"] }

\* Lines 1377-1386.
VersionDefinitionSummaryToMap(model) ==
    CopyPresent(model, {"environment_id", "locator_id"})

\* Lines 1364-1375, for a summary whose definition is not nil.
VersionSummaryToMap(model) ==
    CopyAlways(model, {"state", "href"})
        @@ [definition |-> <<VersionDefinitionSummaryToMap(model["definition"])>>,
            version |-> IntValue(model, "version")]

\* projectv1.ProjectConfig
ProjResponses ==
    [Version : {2}, IsDraft : {FALSE}, CreatedAt : {"t0"}, ModifiedAt : {"t1"},
     State : {"deployed"}, UpdateAvailable : {FALSE}, Href : {"href"},
     NeedsAttentionState : SeqsUpTo(EventSet, MaxEvents),
     Outputs : OutputLists,
     Project : ProjectReferences \cup {Nil},
     Schematics : SchematicsSet \cup {Nil},
     Definition : Definitions \cup {Nil},
     ApprovedVersion : VersionSummaries \cup {Nil},
     DeployedVersion : {v \in VersionSummaries : Has(v, "definition")} \cup {Nil}]

\* The list a loop of ToMap calls builds from a slice.
RECURSIVE MapNeedsAttentionState(_)
MapNeedsAttentionState(items) ==
    IF items = <<>> THEN <<>>
    ELSE <<NeedsAttentionStateToMap(Head(items))>> \o MapNeedsAttentionState(Tail(items))

RECURSIVE MapOutputs(_)
MapOutputs(items) ==
    IF items = <<>> THEN <<>>
    ELSE <<OutputValueToMap(Head(items))>> \o MapOutputs(Tail(items))

\* Lines 909-919: the project client of the session.
ProjGetClient ==
    /\ handler = "project"
    /\ pc = "start"
    /\ \E ok \in BOOLEAN :
        /\ calls' = Append(calls, Call("ProjectV1", <<>>, ok, Nil))
        /\ IF ok
           THEN pc' = "config" /\ UNCHANGED ret
           ELSE ReturnErr(ErrorOf("ProjectV1"))
    /\ UNCHANGED <<other, handler, cfg, d, api, instanceID, offset, totalKeys, matchKeys,
                   keyMap, resp>>

\* Lines 921-938: GetConfigWithContext, the resource ID, version and is_draft.
ProjGetConfig ==
    /\ handler = "project"
    /\ pc = "config"
    /\ \E ok \in BOOLEAN, projectConfig \in ProjResponses \cup {Nil} :
        /\ ok <=> projectConfig # Nil
        /\ calls' = Append(calls, Call("GetConfigWithContext",
                               <<cfg.project_id, cfg.project_config_id>>, ok, projectConfig))
        /\ IF ok
           THEN /\ resp' = projectConfig
                /\ d' = Set(Set(SetId(d, ProjResourceID(cfg.project_id, cfg.project_config_id)),
                                "version", IntValue(projectConfig, "Version")),
                            "is_draft", projectConfig.IsDraft)
                /\ pc' = "needs_attention_state"
                /\ UNCHANGED ret
           ELSE /\ ReturnErr(Errorf("GetConfigWithContext failed", ErrorOf("GetConfigWithContext")))
                /\ UNCHANGED <<resp, d>>
    /\ UNCHANGED <<other, handler, cfg, api, instanceID, offset, totalKeys, matchKeys, keyMap>>

\* Lines 940-969: needs_attention_state, created_at, modified_at, last_saved_at.
ProjSetNeedsAttentionState ==
    /\ handler = "project"
    /\ pc = "needs_attention_state"
    /\ d' = Set(Set(Set(Set(d,
                "needs_attention_state", MapNeedsAttentionState(resp.NeedsAttentionState)),
                "created_at", DateTimeToString(resp, "CreatedAt")),
                "modified_at", DateTimeToString(resp, "ModifiedAt")),
                "last_saved_at", DateTimeToString(resp, "LastSavedAt"))
    /\ pc' = "outputs"
    /\ UNCHANGED <<other, handler, cfg, ret, calls, api, instanceID, offset, totalKeys,
                   matchKeys, keyMap, resp>>

\* Lines 971-985: outputs.
ProjSetOutputs ==
    /\ handler = "project"
    /\ pc = "outputs"
    /\ d' = Set(d, "outputs", MapOutputs(resp.Outputs))
    /\ pc' = "project"
    /\ UNCHANGED <<other, handler, cfg, ret, calls, api, instanceID, offset, totalKeys,
                   matchKeys, keyMap, resp>>

\* Lines 987-999: project; line 1130 dereferences the reference's definition.
ProjSetProject ==
    /\ handler = "project"
    /\ pc = "project"
    /\ IF resp.Project = Nil
       THEN /\ d' = Set(d, "project", <<>>)
            /\ pc' = "schematics"
            /\ UNCHANGED ret
       ELSE IF ~Has(resp.Project, "definition")
       THEN /\ ReturnPanic
            /\ UNCHANGED d
       ELSE /\ d' = Set(d, "project", <<ProjectReferenceToMap(resp.Project)>>)
            /\ pc' = "schematics"
            /\ UNCHANGED ret
    /\ UNCHANGED <<other, handler, cfg, calls, api, instanceID, offset, totalKeys, matchKeys,
                   keyMap, resp>>

\* Lines 1001-1028: schematics, state, update_available, href.
ProjSetSchematics ==
    /\ handler = "project"
    /\ pc = "schematics"
    /\ LET schematics == IF resp.Schematics = Nil THEN <<>>
                         ELSE <<SchematicsMetadataToMap(resp.Schematics)>>
       IN  d' = Set(Set(Set(Set(d, "schematics", schematics),
                    "state", resp.State), "update_available", resp.UpdateAvailable),
                    "href", resp.Href)
    /\ pc' = "definition"
    /\ UNCHANGED <<other, handler, cfg, ret, calls, api, instanceID, offset, totalKeys,
                   matchKeys, keyMap, resp>>

\* Lines 1030-1042: definition; an unrecognized subtype ends the read.
ProjSetDefinition ==
    /\ handler = "project"
    /\ pc = "definition"
    /\ IF resp.Definition = Nil
       THEN /\ d' = Set(d, "definition", <<>>)
            /\ pc' = "approved_version"
            /\ UNCHANGED ret
       ELSE LET r == ProjectConfigDefinitionResponseToMap(resp.Definition)
            IN  IF r.err # ""
                THEN /\ ReturnErr(r.err)
                     /\ UNCHANGED d
                ELSE /\ d' = Set(d, "definition", <<r.map>>)
                     /\ pc' = "approved_version"
                     /\ UNCHANGED ret
    /\ UNCHANGED <<other, handler, cfg, calls, api, instanceID, offset, totalKeys, matchKeys,
                   keyMap, resp>>

\* Lines 1044-1056: approved_version; line 1379 dereferences the summary's definition.
ProjSetApprovedVersion ==
    /\ handler = "project"
    /\ pc = "approved_version"
    /\ IF resp.ApprovedVersion = Nil
       THEN /\ d' = Set(d, "approved_version", <<>>)
            /\ pc' = "deployed_version"
            /\ UNCHANGED ret
       ELSE IF ~Has(resp.ApprovedVersion, "definition")
       THEN /\ ReturnPanic
            /\ UNCHANGED d
       ELSE /\ d' = Set(d, "approved_version", <<VersionSummaryToMap(resp.ApprovedVersion)>>)
            /\ pc' = "deployed_version"
            /\ UNCHANGED ret
    /\ UNCHANGED <<other, handler, cfg, calls, api, instanceID, offset, totalKeys, matchKeys,
                   keyMap, resp>>

\* Lines 1058-1072: deployed_version, then return nil.
ProjSetDeployedVersion ==
    /\ handler = "project"
    /\ pc = "deployed_version"
    /\ IF resp.DeployedVersion = Nil
       THEN /\ d' = Set(d, "deployed_version", <<>>)
            /\ ReturnNil
       ELSE IF ~Has(resp.DeployedVersion, "definition")
       THEN /\ ReturnPanic
            /\ UNCHANGED d
       ELSE /\ d' = Set(d, "deployed_version", <<VersionSummaryToMap(resp.DeployedVersion)>>)
            /\ ReturnNil
    /\ UNCHANGED <<other, handler, cfg, calls, api, instanceID, offset, totalKeys, matchKeys,
                   keyMap, resp>>

ProjNext ==
    \/ ProjGetClient
    \/ ProjGetConfig
    \/ ProjSetNeedsAttentionState
    \/ ProjSetOutputs
    \/ ProjSetProject
    \/ ProjSetSchematics
    \/ ProjSetDefinition
    \/ ProjSetApprovedVersion
    \/ ProjSetDeployedVersion

----------------------------------------------------------------------------
\* The Privileged Access Gateway example: local.pag_hostnames and the output
\* pag-hosts.  Evaluating the example is a run of its own (SpecPag): cfg holds
\* var.num_instances and the guid and location of ibm_pag_instance.pag, resp
\* the list the for expression has built so far, d.attrs the outputs.

Guids == { <<"a", "b">>, <<"a", "-", "1">>, <<"7">> }
Locations == { <<"u", "s">>, <<"e", "u", "-", "d", "e">> }

PagConfigs == [num_instances : 0..MaxInstances, guid : Guids, location : Locations]

DigitChars == <<"0", "1", "2", "3", "4", "5", "6", "7", "8", "9">>

\* "${n}": the decimal digits of a number that is not negative.
RECURSIVE NumberToString(_)
NumberToString(n) ==
    IF n < 10 THEN <<DigitChars[n + 1]>>
    ELSE NumberToString(n \div 10) \o <<DigitChars[(n % 10) + 1]>>

\* range(max): 0, 1, ..., max - 1.
Range(max) == [k \in 1..max |-> k - 1]

\* join(separator, list)
RECURSIVE Join(_, _)
Join(separator, list) ==
    IF list = <<>> THEN <<>>
    ELSE IF Len(list) = 1 THEN Head(list)
    ELSE Head(list) \o separator \o Join(separator, Tail(list))

PagHostnameFromZero(guid, i, location) ==
    Join(<<".">>, << guid \o <<"-">> \o NumberToString(i), location,
                     <<"p", "a", "g">>,
                     <<"a", "p", "p", "d", "o", "m", "a", "i", "n">>,
                     <<"c", "l", "o", "u", "d">> >>)

\* join(".", ["${guid}-${i + 1}", "${location}", "pag", "appdomain", "cloud"])
PagHostname(guid, i, location) ==
    Join(<<".">>, << guid \o <<"-">> \o NumberToString(i + 1), location,
                     <<"p", "a", "g">>,
                     <<"a", "p", "p", "d", "o", "m", "a", "i", "n">>,
                     <<"c", "l", "o", "u", "d">> >>)

\* One element of [for i in range(var.num_instances) : ...].
PagFor ==
    /\ handler = "pag"
    /\ pc = "for"
    /\ Len(resp) < Len(Range(cfg.num_instances))
    /\ LET i == Range(cfg.num_instances)[Len(resp) + 1]
       IN  resp' = Append(resp, PagHostname(cfg.guid, i, cfg.location))
    /\ UNCHANGED <<other, handler, cfg, pc, ret, d, calls, api, instanceID, offset, totalKeys,
                   matchKeys, keyMap>>

\* output "pag-hosts" { value = local.pag_hostnames }
PagOutput ==
    /\ handler = "pag"
    /\ pc = "for"
    /\ Len(resp) = Len(Range(cfg.num_instances))
    /\ d' = Set(d, "pag-hosts", resp)
    /\ ReturnNil
    /\ UNCHANGED <<other, handler, cfg, calls, api, instanceID, offset, totalKeys, matchKeys,
                   keyMap, resp>>

PagNext ==
    \/ PagFor
    \/ PagOutput

InitPag ==
    /\ handler = "pag"
    /\ cfg \in PagConfigs
    /\ pc = "for"
    /\ ret = Running
    /\ d = EmptyData
    /\ calls = <<>>
    /\ api = [URL |-> <<>>, InstanceID |-> <<>>]
    /\ instanceID = <<>>
    /\ offset = 0
    /\ totalKeys = <<>>
    /\ matchKeys = <<>>
    /\ keyMap = <<>>
    /\ resp = <<>>
    /\ other = Nil

SpecPag == InitPag /\ [][PagNext]_vars

----------------------------------------------------------------------------

InitLocals ==
    /\ pc = "start"
    /\ ret = Running
    /\ d = EmptyData
    /\ calls = <<>>
    /\ api = [URL |-> <<>>, InstanceID |-> <<>>]
    /\ instanceID = <<>>
    /\ offset = 0
    /\ totalKeys = <<>>
    /\ matchKeys = <<>>
    /\ keyMap = <<>>
    /\ resp = Nil
    /\ other = Nil

Init ==
    /\ handler \in Handlers
    /\ handler = "kms" => (cfg \in KmsConfigs /\ ExactlyOneOf(cfg))
    /\ handler = "pi" => cfg \in PiConfigs
    /\ handler = "project" => cfg \in ProjConfigs
    /\ InitLocals

Next ==
    \/ KmsNext
    \/ PiNext
    \/ ProjNext

Spec == Init /\ [][Next]_vars

----------------------------------------------------------------------------
\* Properties of the read handlers.

Done == pc = "done"
ReturnedNil == Done /\ ret = RetNil
ReturnedError == Done /\ ret.kind = "error"

CallsOf(op) == SelectSeq(calls, LAMBDA c : c.op = op)

RECURSIVE SumRequested(_)
SumRequested(cs) == IF cs = <<>> THEN 0 ELSE Head(cs).arg[1] + SumRequested(Tail(cs))

\* The keys of the GetKeys responses, in the order they were fetched.
RECURSIVE FetchedKeys(_)
FetchedKeys(cs) == IF cs = <<>> THEN <<>> ELSE Head(cs).out \o FetchedKeys(Tail(cs))

KeyNameMode == handler = "kms" /\ GetOk(cfg.key_name)

\* C1: in every read handler a failed SDK call is the last call of the
\* invocation (no further call, no retry) and the handler has returned an error.
C1_ErrorEndsRead ==
    \A i \in 1..Len(calls) :
        ~calls[i].ok => (i = Len(calls) /\ ReturnedError)

\* A GetKeys call of a second page fails after the calls before it succeeded.
C1_Witness ==
    /\ Len(calls) = 5
    /\ calls[5].op = "GetKeys"
    /\ ~calls[5].ok
    /\ calls[4].op = "GetKeys"
    /\ ReturnedError

\* C2: with key_name set and limit L > 0 every GetKeys call requests between 1
\* and 200 keys, the requested counts of one read sum to at most L, and if no
\* response is longer than requested at most L keys are accumulated.
C2_RequestsWithinLimit ==
    (KeyNameMode /\ cfg.limit > 0) =>
        LET g == CallsOf("GetKeys")
        IN  /\ \A i \in 1..Len(g) : g[i].arg[1] >= 1 /\ g[i].arg[1] <= 200
            /\ SumRequested(g) <= cfg.limit
            /\ (\A i \in 1..Len(g) : Len(g[i].out) <= g[i].arg[1])
                   => Len(totalKeys) <= cfg.limit

\* Two pages were requested, 200 keys and then the one key left of the limit.
C2_Witness ==
    /\ KeyNameMode
    /\ cfg.limit = 201
    /\ Len(CallsOf("GetKeys")) = 2
    /\ SumRequested(CallsOf("GetKeys")) = cfg.limit
    /\ Len(totalKeys) = 3

\* C3: with a non-empty key_name the keys list of a successful read holds
\* exactly the fetched keys of that name, one entry each, in the order fetched.
C3_KeysAreTheNamedKeys ==
    (KeyNameMode /\ ReturnedNil) =>
        LET named == SelectSeq(FetchedKeys(CallsOf("GetKeys")),
                               LAMBDA k : k.Name = cfg.key_name)
            keys == d.attrs["keys"]
        IN  /\ Len(keys) = Len(named)
            /\ \A i \in 1..Len(keys) :
                /\ keys[i].id = named[i].ID
                /\ keys[i].name = cfg.key_name

\* Keys k2, k3 and k1 were fetched; the list holds k2 and k1, in that order.
C3_Witness ==
    /\ KeyNameMode
    /\ ReturnedNil
    /\ \E i \in 1..Len(totalKeys) : totalKeys[i].Name # cfg.key_name
    /\ Len(d.attrs["keys"]) = 2
    /\ d.attrs["keys"][1].id = "k2"
    /\ d.attrs["keys"][2].id = "k1"

\* The lookup attribute the configuration gives.
Given(f) == handler = "kms" /\ cfg[f] # NoVal

\* C4: exactly one of key_id, key_name and alias is given, and the read runs
\* the lookup of the one given: key_name lists with GetKeys and never calls
\* GetKey; key_id calls GetKey(key_id) once and alias calls GetKey(alias) once,
\* neither calls GetKeys, and their keys list has exactly one entry.
C4_LookupOfTheGivenAttribute ==
    handler = "kms" =>
        /\ Cardinality({f \in {"alias", "key_name", "key_id"} : Given(f)}) = 1
        /\ Given("key_name") => Len(CallsOf("GetKey")) = 0
        /\ \A f \in {"key_id", "alias"} :
            Given(f) =>
                /\ Len(CallsOf("GetKeys")) = 0
                /\ Len(CallsOf("GetKey")) <= 1
                /\ \A i \in 1..Len(calls) :
                    calls[i].op = "GetKey" => calls[i].arg = cfg[f]
                /\ ReturnedNil =>
                    (Len(CallsOf("GetKey")) = 1 /\ Len(d.attrs["keys"]) = 1)

\* The third-from-last of the segments that the colons of s separate, when
\* there are more than three segments; s itself otherwise.
ColonsOf(s) == {i \in 1..Len(s) : s[i] = ":"}
LastOf(S) == CHOOSE x \in S : \A y \in S : y <= x
ThirdFromLastSegment(s) ==
    IF Cardinality(ColonsOf(s)) < 3 THEN s
    ELSE LET c1 == LastOf(ColonsOf(s))
             c2 == LastOf(ColonsOf(s) \ {c1})
             c3 == LastOf(ColonsOf(s) \ {c1, c2})
         IN  SubSeq(s, c3 + 1, c2 - 1)

\* C5: the instance ID used for GetResourceInstance, for the key-protect
\* client, for the resource ID and for the stored instance_id is the
\* third-from-last segment of a CRN (more than 3 segments) and the given
\* instance_id otherwise; on success the resource ID is that instance ID.
C5_InstanceIDOfCRN ==
    handler = "kms" =>
        LET id == ThirdFromLastSegment(cfg.instance_id)
        IN  /\ \A i \in 1..Len(calls) :
                calls[i].op = "GetResourceInstance" => calls[i].arg = id
            /\ pc \in {"keys", "key", "policies", "policy"} => api.InstanceID = id
            /\ IsSet(d, "instance_id") => d.attrs["instance_id"] = id
            /\ d.Id # NoId => d.Id = id
            /\ ReturnedNil =>
                (d.Id = id /\ api.InstanceID = id /\ IsSet(d, "instance_id"))

\* A read with a CRN of four segments succeeded with the second segment as ID.
C5_Witness ==
    /\ handler = "kms"
    /\ cfg.instance_id = <<"c", ":", "g", "2", ":", "x", ":">>
    /\ ReturnedNil
    /\ d.Id = <<"g", "2">>
    /\ d.attrs["instance_id"] = <<"g", "2">>

\* C6: with key_name set and limit not passed there is one GetKeys call, with
\* limit 0 and offset 0, and only the keys of its response are searched.
C6_DefaultListing ==
    (KeyNameMode /\ cfg.limit = 0) =>
        LET g == CallsOf("GetKeys")
        IN  /\ Len(g) <= 1
            /\ \A i \in 1..Len(g) : g[i].arg = <<0, 0>>
            /\ (pc = "policies" \/ ReturnedNil) =>
                (Len(g) = 1 /\ totalKeys = g[1].out)
            /\ Len(g) = 0 => totalKeys = <<>>

\* A default listing returned two keys and the read succeeded.
C6_Witness ==
    /\ KeyNameMode
    /\ cfg.limit = 0
    /\ ReturnedNil
    /\ Len(CallsOf("GetKeys")) = 1
    /\ Len(totalKeys) = 2

\* id reads "<a>/<b>".
IsPair(id, a, b) ==
    /\ Len(id) = Len(a) + 1 + Len(b)
    /\ SubSeq(id, 1, Len(a)) = a
    /\ id[Len(a) + 1] = "/"
    /\ SubSeq(id, Len(a) + 2, Len(id)) = b

Succeeded(op) == \E i \in 1..Len(calls) : calls[i].op = op /\ calls[i].ok
SomeCallFailed == \E i \in 1..Len(calls) : ~calls[i].ok

\* C7: in the ibm_pi_storage_type_capacity read, once GetStorageTypeCapacity
\* has succeeded the resource ID is "<pi_cloud_instance_id>/<pi_storage_type>";
\* when the session or GetStorageTypeCapacity fails the read returns an error
\* and sets neither the resource ID nor any attribute.
C7_StorageTypeCapacityID ==
    handler = "pi" =>
        /\ Succeeded("GetStorageTypeCapacity") =>
            IsPair(d.Id, cfg.pi_cloud_instance_id, cfg.pi_storage_type)
        /\ SomeCallFailed => (ReturnedError /\ d = EmptyData)
        /\ d # EmptyData => Succeeded("GetStorageTypeCapacity")

\* A read of two pools returned nil with the resource ID set.
C7_Witness ==
    /\ handler = "pi"
    /\ ReturnedNil
    /\ cfg.pi_cloud_instance_id = <<"c", "2">>
    /\ cfg.pi_storage_type = <<"t", "3">>
    /\ d.Id = <<"c", "2", "/", "t", "3">>
    /\ Len(resp.StoragePoolsCapacity) = 2

\* C8: in the ibm_project_config read, once GetConfigWithContext has succeeded
\* the resource ID is "<project_id>/<project_config_id>"; when the client or
\* GetConfigWithContext fails the read returns an error and sets neither the
\* resource ID nor any attribute.
C8_ProjectConfigID ==
    handler = "project" =>
        /\ Succeeded("GetConfigWithContext") =>
            IsPair(d.Id, cfg.project_id, cfg.project_config_id)
        /\ SomeCallFailed => (ReturnedError /\ d = EmptyData)
        /\ d # EmptyData => Succeeded("GetConfigWithContext")

\* A read returned nil with the resource ID set.
C8_Witness ==
    /\ handler = "project"
    /\ ReturnedNil
    /\ cfg.project_id = <<"p", "2">>
    /\ d.Id = <<"p", "2", "/", "c", "9">>

\* The read has passed lines 99-107 without aborting.
PiReachedPools ==
    /\ handler = "pi"
    /\ Succeeded("GetStorageTypeCapacity")
    /\ resp.MaximumStorageAllocation # Nil => IsSet(d, "maximum_storage_allocation")

\* C9: storage_pools_capacity has exactly one entry per storage pool of the
\* response, in the response's order, each with that pool's max allocation
\* size, pool name, storage type and total capacity; an empty pool list gives
\* an empty list, not an absent one.
C9_OneEntryPerPool ==
    (PiReachedPools /\ Done) =>
        /\ IsSet(d, "storage_pools_capacity")
        /\ LET pools == resp.StoragePoolsCapacity
               list == d.attrs["storage_pools_capacity"]
           IN  /\ Len(list) = Len(pools)
               /\ \A i \in 1..Len(pools) :
                    /\ <<list[i].max_allocation_size>> = pools[i].MaxAllocationSize
                    /\ list[i].pool_name = pools[i].PoolName
                    /\ list[i].storage_type = pools[i].StorageType
                    /\ list[i].total_capacity = pools[i].TotalCapacity

\* The read has passed lines 1030-1042.
ProjPassedDefinition ==
    /\ handler = "project"
    /\ IsSet(d, "href")
    /\ pc # "definition"

DefinitionKeys == DOMAIN d.attrs["definition"][1]

\* C10: the definition is flattened by its concrete subtype: a DA definition
\* never yields resource_crns, a Resource definition never yields locator_id
\* or compliance_profile, the generic definition yields every field it has,
\* and for any other subtype the read returns the error "Unrecognized ...
\* subtype encountered" and does not set the definition attribute.
C10_DefinitionBySubtype ==
    (ProjPassedDefinition /\ resp.Definition # Nil) =>
        LET def == resp.Definition
        IN  IF def.subtype = "Other"
            THEN /\ ret = RetErr("Unrecognized projectv1.ProjectConfigDefinitionResponseIntf subtype encountered")
                 /\ Done
                 /\ ~IsSet(d, "definition")
            ELSE /\ IsSet(d, "definition")
                 /\ Len(d.attrs["definition"]) = 1
                 /\ def.subtype = "DA" => "resource_crns" \notin DefinitionKeys
                 /\ def.subtype = "Resource" =>
                        DefinitionKeys \cap {"locator_id", "compliance_profile"} = {}
                 /\ def.subtype = "Generic" => DefinitionKeys = DOMAIN def.model

\* A DA definition that carries resource_crns and a locator was flattened.
C10_Witness ==
    /\ ProjPassedDefinition
    /\ resp.Definition # Nil
    /\ resp.Definition.subtype = "DA"
    /\ Has(resp.Definition.model, "resource_crns")
    /\ "locator_id" \in DefinitionKeys
    /\ ReturnedNil

----------------------------------------------------------------------------

\* The positions of d.order at which the resource ID was set.
IdPositions == {i \in 1..Len(d.order) : d.order[i] = "Id"}

\* C11 as stated: in each read handler the resource ID is set only after the
\* attributes have been written, so no attribute write follows d.SetId.
C11_IdAfterAttributes ==
    \A i \in IdPositions : i = Len(d.order)

\* The resource data has been written to only after successful calls, and the
\* first write is the one d.SetId.
C11_IdIsFirstWrite ==
    d.order # <<>> =>
        /\ IdPositions = {1}
        /\ calls # <<>>
        /\ ~SomeCallFailed

\* C11 (amended): in each read handler the steps occur in the order obtain
\* client, issue the SDK call(s), set the resource ID, write the attributes:
\* the resource ID is set once, after successful SDK calls and before every
\* attribute, and no SDK call is made once the resource ID is set.
C11_IdThenAttributes ==
    /\ []C11_IdIsFirstWrite
    /\ [][d.Id # NoId => calls' = calls]_vars

\* A key read stored the resource ID, then keys, then instance_id.
C11_Witness ==
    /\ handler = "kms"
    /\ ReturnedNil
    /\ d.order = <<"Id", "keys", "instance_id">>
    /\ Len(CallsOf("GetPolicies")) = 2

----------------------------------------------------------------------------

LastCall == calls[Len(calls)]

\* The contextual message each call site puts in front of the call's error
\* (lines 202, 226, 237, 245, 291, 307, 319, 335, 347, 923); the errors of the
\* other calls are returned as they are (lines 182, 194; 84, 94; 911).
ContextOf ==
    [GetResourceInstance |-> "Error retrieving resource instance",
     GetKeys |-> "Get Keys failed with error",
     GetKey |-> "Get Keys failed with error",
     GetPolicies |-> "Failed to read policies",
     GetConfigWithContext |-> "GetConfigWithContext failed"]

Contexts == {ContextOf[op] : op \in DOMAIN ContextOf}

\* The errors a read creates itself (lines 202, 207, 261, 276, 1251).
ProviderErrors ==
    {Errorf("Error retrieving resource instance", NilError),
     ErrorOf("KmsEndpointURL"),
     "No keys in instance",
     "No keys with name",
     "Unrecognized projectv1.ProjectConfigDefinitionResponseIntf subtype encountered"}

----------------------------------------------------------------------------

\* The operations of the remote APIs the three handlers call.
RemoteOps ==
    {"GetResourceInstance", "GetKeys", "GetKey", "GetPolicies",
     "GetStorageTypeCapacity", "GetConfigWithContext"}

\* The SDK operations called so far (the session's client accessors left out).
SdkCalls == SelectSeq(calls, LAMBDA c : c.op \in RemoteOps)

NumCalls(op) == Len(CallsOf(op))

\* The fetched keys whose name is key_name.
NamedKeyPositions ==
    LET fetched == FetchedKeys(CallsOf("GetKeys"))
    IN  {i \in 1..Len(fetched) : fetched[i].Name = Get(cfg.key_name)}

\* The pages a listing of limitVal keys takes.
PagesOf(limitVal) ==
    IF limitVal = 0 THEN 1
    ELSE IF limitVal < 0 THEN 0
    ELSE (limitVal + pageSize - 1) \div pageSize

\* C13 as stated: one read makes at most two SDK calls.
C13_AtMostTwoCalls ==
    Len(SdkCalls) <= 2

\* C13 (amended): the storage-type-capacity and project-config reads make at
\* most one SDK call.  The key read calls GetResourceInstance at most once;
\* then, looking up by key_id or alias, GetKey and GetPolicies at most once
\* each; looking up by key_name, GetKeys at most once per page of the limit
\* (once without a limit) and GetPolicies at most once per fetched key of
\* that name.
C13_CallsPerRead ==
    /\ handler \in {"pi", "project"} => Len(SdkCalls) <= 1
    /\ handler = "kms" =>
        /\ NumCalls("GetResourceInstance") <= 1
        /\ IF KeyNameMode
           THEN /\ NumCalls("GetKey") = 0
                /\ NumCalls("GetKeys") <= PagesOf(cfg.limit)
                /\ NumCalls("GetPolicies") <= Cardinality(NamedKeyPositions)
           ELSE /\ NumCalls("GetKeys") = 0
                /\ NumCalls("GetKey") <= 1
                /\ NumCalls("GetPolicies") <= 1

\* A key read of two pages and three named keys made six SDK calls.
C13_Witness ==
    /\ handler = "kms"
    /\ ReturnedNil
    /\ cfg.limit = 400
    /\ NumCalls("GetKeys") = 2
    /\ NumCalls("GetPolicies") = 3
    /\ Len(SdkCalls) = 6

----------------------------------------------------------------------------

\* The accessors of the session that hand out the SDK clients.
ClientAccessors ==
    {"KeyManagementAPI", "ResourceControllerV2API", "IBMPISession", "ProjectV1"}

\* The retrievals each handler may invoke.
RetrievalsOf ==
    [kms |-> {"GetResourceInstance", "GetKeys", "GetKey", "GetPolicies"},
     pi |-> {"GetStorageTypeCapacity"},
     project |-> {"GetConfigWithContext"}]

\* C14: a data-source read is read-only against the remote API: apart from
\* obtaining its clients from the session, every operation a read invokes is
\* one of the retrievals GetResourceInstance, GetKeys, GetKey, GetPolicies,
\* GetStorageTypeCapacity, GetConfigWithContext (those of its own handler);
\* no create, update or delete operation is ever invoked.
C14_OnlyRetrievals ==
    \A i \in 1..Len(calls) :
        \/ calls[i].op \in ClientAccessors
        \/ /\ calls[i].op \in RemoteOps
           /\ calls[i].op \in RetrievalsOf[handler]

\* A key read by key_id ran to the end: clients, instance, key, policies.
C14_Witness ==
    /\ handler = "kms"
    /\ ReturnedNil
    /\ GetOk(cfg.key_id)
    /\ [i \in 1..Len(calls) |-> calls[i].op] =
         <<"KeyManagementAPI", "ResourceControllerV2API", "GetResourceInstance",
           "GetKey", "GetPolicies">>

----------------------------------------------------------------------------

\* C16: in the ibm_project_config read, needs_attention_state has one entry
\* per event of the response, in the response's order; each entry has
\* event_id, event and timestamp, and has severity, action_url, target and
\* triggered_by exactly when the event carries that field, every value being
\* the event's.
C16_OneEntryPerEvent ==
    (handler = "project" /\ IsSet(d, "needs_attention_state")) =>
        LET events == resp.NeedsAttentionState
            list == d.attrs["needs_attention_state"]
        IN  /\ Len(list) = Len(events)
            /\ \A i \in 1..Len(events) :
                /\ {"event_id", "event", "timestamp"} \subseteq DOMAIN list[i]
                /\ \A k \in {"severity", "action_url", "target", "triggered_by"} :
                        k \in DOMAIN list[i] <=> k \in DOMAIN events[i]
                /\ \A k \in DOMAIN list[i] : list[i][k] = events[i][k]

\* Two events, the first with every optional field and the second with none,
\* were flattened in that order.
C16_Witness ==
    /\ handler = "project"
    /\ IsSet(d, "needs_attention_state")
    /\ Len(resp.NeedsAttentionState) = 2
    /\ d.attrs["needs_attention_state"][1].event_id = "e4"
    /\ "action_url" \in DOMAIN d.attrs["needs_attention_state"][1]
    /\ d.attrs["needs_attention_state"][2].event_id = "e1"
    /\ DOMAIN d.attrs["needs_attention_state"][2] = {"event_id", "event", "timestamp"}

----------------------------------------------------------------------------

\* C19: every failure of a read surfaces as a returned diagnostic or error:
\* for every well-typed SDK response, one with an absent optional pointer
\* field included, the read handler returns normally, with a nil result or
\* an error result, and never aborts.
C19_ReadNeverAborts ==
    Done => ret.kind \in {"nil", "error"}

----------------------------------------------------------------------------

\* C18: for every integer limit the schema accepts, negative ones included,
\* and every key_name, the ibm_kms_key read eventually returns a result or an
\* error when every SDK call returns: a read that has not returned is never
\* in a state from which no step of the handler changes anything.
C18_ReadReturns ==
    handler = "kms" => (Done \/ ENABLED <<Next>>_vars)

----------------------------------------------------------------------------

\* The number a string of decimal digits reads as.
DigitValue(c) == CHOOSE v \in 0..9 : DigitChars[v + 1] = c

RECURSIVE ParseDigits(_)
ParseDigits(ds) ==
    IF ds = <<>> THEN 0
    ELSE 10 * ParseDigits(SubSeq(ds, 1, Len(ds) - 1)) + DigitValue(ds[Len(ds)])

\* The first "." of entry after position from.
FirstDotAfter(entry, from) ==
    CHOOSE p \in (from + 1)..Len(entry) :
        /\ entry[p] = "."
        /\ \A q \in (from + 1)..(p - 1) : entry[q] # "."

\* The text between "<guid>-" and the next "." of entry.
SuffixOf(entry, guid) ==
    SubSeq(entry, Len(guid) + 2, FirstDotAfter(entry, Len(guid) + 1) - 1)

\* entry reads "<guid>-<n>.<location>.pag.appdomain.cloud" for a number n
\* written in decimal digits without a leading zero.
IsPagHostname(entry, guid, location) ==
    LET g == Len(guid)
        digits == SuffixOf(entry, guid)
        rest == SubSeq(entry, g + 2 + Len(digits), Len(entry))
    IN  /\ Len(entry) > g + 1
        /\ SubSeq(entry, 1, g) = guid
        /\ entry[g + 1] = "-"
        /\ \E p \in (g + 2)..Len(entry) : entry[p] = "."
        /\ digits # <<>>
        /\ \A k \in 1..Len(digits) : \E v \in 0..9 : DigitChars[v + 1] = digits[k]
        /\ (Len(digits) > 1 => digits[1] # "0")
        /\ rest = <<".">> \o location
                    \o <<".", "p", "a", "g", ".", "a", "p", "p", "d", "o", "m", "a", "i", "n",
                          ".", "c", "l", "o", "u", "d">>

PagSuffix(entry) == ParseDigits(SuffixOf(entry, cfg.guid))

\* C17: in the Privileged Access Gateway example the pag-hosts output lists
\* exactly num_instances hostnames; the entry at 0-based index i is
\* "<guid>-<i+1>.<location>.pag.appdomain.cloud", so the numeric suffixes are
\* 1..num_instances with no duplicates and no suffix 0.
C17_PagHosts ==
    (handler = "pag" /\ Done) =>
        LET hosts == d.attrs["pag-hosts"]
        IN  /\ Len(hosts) = cfg.num_instances
            /\ \A k \in 1..Len(hosts) :
                /\ IsPagHostname(hosts[k], cfg.guid, cfg.location)
                /\ PagSuffix(hosts[k]) = k
            /\ {PagSuffix(hosts[k]) : k \in 1..Len(hosts)} = 1..cfg.num_instances
            /\ \A j, k \in 1..Len(hosts) : j # k => hosts[j] # hosts[k]

\* Eleven hostnames were listed for a guid that itself ends in "-1"; the
\* tenth has the two-digit suffix 10.
C17_Witness ==
    /\ handler = "pag"
    /\ Done
    /\ cfg.num_instances = 11
    /\ cfg.guid = <<"a", "-", "1">>
    /\ cfg.location = <<"u", "s">>
    /\ d.attrs["pag-hosts"][10] =
         <<"a", "-", "1", "-", "1", "0", ".", "u", "s", ".", "p", "a", "g", ".",
           "a", "p", "p", "d", "o", "m", "a", "i", "n", ".", "c", "l", "o", "u", "d">>

----------------------------------------------------------------------------

ApiOps == {"GetKeys", "GetKey", "GetPolicies"}

\* The instance ID and the endpoint URL of a read with configuration c.
OwnInstanceID(c) == InstanceIDOf(c.instance_id)
OwnURL(c) == EndpointURL(c.endpoint_type, InstanceData(OwnInstanceID(c)).Extensions)

\* C15: read handlers have no shared mutable state: when two ibm_kms_key
\* reads for different instance_id values run concurrently with the same
\* session, every GetKeys, GetKey and GetPolicies call of a read is made with
\* that read's own endpoint URL and instance ID, never with the other read's.
C15_CallsUseOwnInstance ==
    \A i \in 1..Len(calls) :
        calls[i].op \in ApiOps =>
            /\ calls[i].InstanceID = OwnInstanceID(calls[i].by)
            /\ calls[i].URL = OwnURL(calls[i].by)

====
